---- MODULE Spec2Model ----
(***************************************************************************)
(* Model of the astroresearch-agent backend:                               *)
(*   backend/app/main.py                   analyze_topic,                  *)
(*                                         summarize_with_gemini           *)
(*   backend/app/services/arxiv_client.py  search_arxiv                    *)
(*   backend/app/services/gemini_client.py generate_report                 *)
(*   backend/app/services/astro_math.py    the two physics functions       *)
(*                                                                         *)
(* Python str values that the code inspects (topics, provider texts,       *)
(* overviews) are sequences of one-character strings, so that lower(),     *)
(* "in", split(), replace() and strip() are computed character by          *)
(* character.  A published timestamp string is a sequence of lexemes       *)
(* (a date-time body, "Z", an offset, junk).  Strings that the code only   *)
(* copies (labels, details) are TLA+ strings.                              *)
(***************************************************************************)
EXTENDS Integers, Sequences, FiniteSets, TLC

VARIABLES
    pc,             \* position of the analyze_topic handler
    payload,        \* AnalyzeTopicRequest: [topic, max_papers]
    env_key,        \* os.getenv("GEMINI_API_KEY") is set (main.py)
    search_outcome, \* what httpx.get / ET.fromstring did in search_arxiv
    entries,        \* list returned by search_arxiv
    papers,         \* List[PaperSummary]
    calculations,   \* List[CalculationResult]
    gemini_outcome, \* what the provider did in summarize_with_gemini
    summary,        \* return value of summarize_with_gemini
    response,       \* AnalyzeTopicResponse returned by analyze_topic
    search_calls,   \* arguments of every httpx.get issued
    gemini_calls,   \* prompt of every model.generate_content issued
    gr_pc,          \* position of a generate_report call (gemini_client.py)
    api_key,        \* module-level api_key of gemini_client.py is set
    gr_in,          \* arguments of generate_report
    gr_provider,    \* what model.generate_content did in generate_report
    gr_out          \* dict returned by generate_report

vars == <<pc, payload, env_key, search_outcome, entries, papers, calculations,
          gemini_outcome, summary, response, search_calls, gemini_calls,
          gr_pc, api_key, gr_in, gr_provider, gr_out>>

handler_vars == <<pc, payload, env_key, search_outcome, entries, papers,
                  calculations, gemini_outcome, summary, response,
                  search_calls>>

report_vars == <<gr_pc, api_key, gr_in, gr_provider, gr_out>>

(***************************************************************************)
(* Bounds of the model.                                                    *)
(***************************************************************************)
\* longest Atom feed (number of <entry> elements) the search provider returns
MaxEntries == 2
\* a provider text of generate_report is a concatenation of at most this
\* many pieces of TextPieces
MaxPieces == 3

(***************************************************************************)
(* Python str operations, on sequences of characters.                      *)
(***************************************************************************)
UPPER ==
    <<"A","B","C","D","E","F","G","H","I","J","K","L","M","N","O","P","Q","R",
      "S","T","U","V","W","X","Y","Z">>
LOWER ==
    <<"a","b","c","d","e","f","g","h","i","j","k","l","m","n","o","p","q","r",
      "s","t","u","v","w","x","y","z">>

\* characters str.strip() removes
Whitespace == {" ", "\n", "\t"}

lower_char(c) ==
    IF \E i \in 1..Len(UPPER) : UPPER[i] = c
    THEN LOWER[CHOOSE i \in 1..Len(UPPER) : UPPER[i] = c]
    ELSE c

\* str.lower()
lower(s) == [i \in 1..Len(s) |-> lower_char(s[i])]

\* s[i:].startswith(sub), i 1-based
MatchAt(s, sub, i) ==
    /\ i + Len(sub) - 1 <= Len(s)
    /\ \A k \in 1..Len(sub) : s[i + k - 1] = sub[k]

\* sub in s
Contains(s, sub) == \E i \in 1..(Len(s) + 1) : MatchAt(s, sub, i)

\* s.find(sub), 1-based; only used when Contains(s, sub)
Find(s, sub) ==
    CHOOSE i \in 1..(Len(s) + 1) :
        /\ MatchAt(s, sub, i)
        /\ \A j \in 1..(i - 1) : ~MatchAt(s, sub, j)

\* s.endswith(sub)
EndsWith(s, sub) ==
    /\ Len(sub) <= Len(s)
    /\ MatchAt(s, sub, Len(s) - Len(sub) + 1)

\* s.replace(old, new): every non-overlapping occurrence, left to right
RECURSIVE Replace(_, _, _)
Replace(s, old, new) ==
    IF Len(s) = 0 \/ Len(old) = 0 THEN s
    ELSE IF MatchAt(s, old, 1)
         THEN new \o Replace(SubSeq(s, Len(old) + 1, Len(s)), old, new)
         ELSE <<s[1]>> \o Replace(Tail(s), old, new)

RECURSIVE LStrip(_)
LStrip(s) ==
    IF Len(s) > 0 /\ s[1] \in Whitespace THEN LStrip(Tail(s)) ELSE s

RECURSIVE RStrip(_)
RStrip(s) ==
    IF Len(s) > 0 /\ s[Len(s)] \in Whitespace
    THEN RStrip(SubSeq(s, 1, Len(s) - 1))
    ELSE s

\* str.strip()
Strip(s) == RStrip(LStrip(s))

\* str(n) for n >= 0
RECURSIVE Digits(_)
Digits(n) ==
    LET d == <<"0","1","2","3","4","5","6","7","8","9">>[(n % 10) + 1]
    IN  IF n < 10 THEN <<d>> ELSE Digits(n \div 10) \o <<d>>

\* all sequences over S of length at most n
SeqsUpTo(S, n) == UNION {[1..k -> S] : k \in 0..n}

(***************************************************************************)
(* Request payloads (AnalyzeTopicRequest).                                 *)
(***************************************************************************)
\* ""
T_EMPTY == <<>>
\* "pulsar timing"
T_PULSAR ==
    <<"p","u","l","s","a","r"," ","t","i","m","i","n","g">>
\* "black hole"
T_BLACK_HOLE ==
    <<"b","l","a","c","k"," ","h","o","l","e">>
\* "Black Hole jets"
T_BLACK_HOLE_CAPS ==
    <<"B","l","a","c","k"," ","H","o","l","e"," ","j","e","t","s">>
\* "BLACK HOLE orbit"
T_BLACK_HOLE_ORBIT ==
    <<"B","L","A","C","K"," ","H","O","L","E"," ","o","r","b","i","t">>
\* "Orbital decay"
T_ORBIT ==
    <<"O","r","b","i","t","a","l"," ","d","e","c","a","y">>
\* "ExoPlanet"
T_EXOPLANET ==
    <<"E","x","o","P","l","a","n","e","t">>
\* "planets in the universe"
T_PLANET_UNIVERSE ==
    <<"p","l","a","n","e","t","s"," ","i","n"," ","t","h","e"," ","u","n","i",
      "v","e","r","s","e">>
\* "blackhole" (no space: not the keyword)
T_BLACKHOLE ==
    <<"b","l","a","c","k","h","o","l","e">>
\* "dark energy"
T_DARK_ENERGY ==
    <<"d","a","r","k"," ","e","n","e","r","g","y">>

Topics ==
    {T_EMPTY, T_PULSAR, T_BLACK_HOLE, T_BLACK_HOLE_CAPS, T_BLACK_HOLE_ORBIT,
     T_ORBIT, T_EXOPLANET, T_PLANET_UNIVERSE, T_BLACKHOLE, T_DARK_ENERGY}

\* max_papers: int = 3
DefaultMaxPapers == 3

\* values of max_papers a request carries (the default among them)
MaxPapersValues == {1, DefaultMaxPapers, 8}

AnalyzeTopicRequest == [topic : Topics, max_papers : MaxPapersValues]

(***************************************************************************)
(* The Atom feed the search provider answers with, and search_arxiv.       *)
(***************************************************************************)
\* a child element that findtext / find does not find
NoElement == <<"<absent>">>

\* lexemes of a published string
DT == "2024-01-01T00:00:00"
Offsets == {"+00:00", "+05:30"}

\* <entry> elements: title text, published text, href of the alternate link
FeedEntries ==
    { [title |-> <<" ","A","\n">>, published |-> <<DT, "Z">>,
       link |-> <<"u","1">>],
      [title |-> <<"B">>, published |-> <<DT, "+05:30">>,
       link |-> <<"u","2">>],
      [title |-> <<"C">>, published |-> <<DT>>, link |-> NoElement],
      [title |-> <<"D">>, published |-> NoElement, link |-> <<"u","4">>],
      [title |-> NoElement, published |-> <<"junk">>, link |-> <<"u","5">>],
      [title |-> <<"F">>, published |-> <<"junk", "Z">>,
       link |-> <<"u","6">>] }

Feeds == SeqsUpTo(FeedEntries, MaxEntries)

\* entry.findtext(path, default="", namespaces=ns).strip()
findtext(el) == Strip(IF el = NoElement THEN <<>> ELSE el)

\* the dict search_arxiv builds per <entry>
entry_dict(x) ==
    [ title     |-> findtext(x.title),
      summary   |-> <<>>,
      published |-> findtext(x.published),
      url       |-> IF x.link = NoElement THEN <<>> ELSE x.link,
      authors   |-> <<>> ]

\* results of search_arxiv for a well-formed feed
search_results(feed) == [i \in 1..Len(feed) |-> entry_dict(feed[i])]

\* a plausible slip: the count is the default, not the one passed in
search_params_default_count(topic, max_results) ==
    [search_query |-> <<"a","l","l",":">> \o topic, start |-> 0,
     max_results |-> DefaultMaxPapers]

\* params of the httpx.get in search_arxiv(topic, max_results)
search_params(topic, max_results) ==
    [search_query |-> <<"a","l","l",":">> \o topic, start |-> 0,
     max_results |-> max_results]

(***************************************************************************)
(* Normalization of the entries (analyze_topic, step 1).                   *)
(***************************************************************************)
\* values datetime.utcnow() may return
Clock == {"now1", "now2"}

\* tzinfo of a naive datetime
NoTz == "None"

\* datetime.fromisoformat accepts the string
iso_ok(s) ==
    \/ s = <<DT>>
    \/ Len(s) = 2 /\ s[1] = DT /\ s[2] \in Offsets

\* datetime.fromisoformat(s), for iso_ok(s)
fromisoformat(s) ==
    [at |-> s[1], tzinfo |-> IF Len(s) = 2 THEN s[2] ELSE NoTz]

\* datetime.utcnow(): a naive datetime
utcnow(now) == [at |-> now, tzinfo |-> NoTz]

\* published_raw after the 'Z' rewrite
published_raw(e) ==
    LET raw == e.published
    IN  IF EndsWith(raw, <<"Z">>)
        THEN Replace(raw, <<"Z">>, <<"+00:00">>)
        ELSE raw

\* published_dt: parsed, or the current time when parsing raises
published_dt(e, now) ==
    IF iso_ok(published_raw(e))
    THEN fromisoformat(published_raw(e))
    ELSE utcnow(now)

PaperSummary(e, now) ==
    [ title     |-> e.title,
      authors   |-> e.authors,
      summary   |-> e.summary,
      url       |-> e.url,
      published |-> published_dt(e, now) ]

\* a plausible slip: an entry whose timestamp does not parse is skipped
normalize_drop_unparsable(es, nows) ==
    LET parses(e) == iso_ok(published_raw(e))
        kept == SelectSeq(es, parses)
    IN  [i \in 1..Len(kept) |-> PaperSummary(kept[i], nows[i])]

\* the for loop over entries; nows[i] is the clock reading in iteration i
normalize(es, nows) == [i \in 1..Len(es) |-> PaperSummary(es[i], nows[i])]

(***************************************************************************)
(* Topic-based calculations (analyze_topic, step 2).                       *)
(***************************************************************************)
KW_BLACK_HOLE == <<"b","l","a","c","k"," ","h","o","l","e">>
KW_ORBIT == <<"o","r","b","i","t">>
KW_EXOPLANET == <<"e","x","o","p","l","a","n","e","t">>
KW_PLANET == <<"p","l","a","n","e","t">>

\* astro_math.schwarzschild_radius_km(mass_solar), formatted f"{:,.2f} km".
\* The magnitude is kept symbolic: the function applied to its argument.
schwarzschild_radius_km(mass_solar) ==
    [fn |-> "schwarzschild_radius_km", args |-> <<mass_solar>>,
     format |-> ",.2f", unit |-> "km"]

\* astro_math.kepler_orbital_period_days(a_au, star_mass_solar), formatted
\* f"{:.1f} days"; the star mass is the positive literal 1.0 at both call
\* sites, so the ValueError guard of kepler_orbital_period_years is not taken
kepler_orbital_period_days(a_au, star_mass_solar) ==
    [fn |-> "kepler_orbital_period_days", args |-> <<a_au, star_mass_solar>>,
     format |-> ".1f", unit |-> "days"]

CalculationResult(label, value, details) ==
    [label |-> label, value |-> value, details |-> details]

\* the branch 'if "black hole" in topic_lower'
black_hole_calculations ==
    << CalculationResult(
           "Schwarzschild radius (stellar-mass black hole)",
           schwarzschild_radius_km("10.0"),
           "Event horizon radius for a 10.0 Msun black hole."),
       CalculationResult(
           "Schwarzschild radius (supermassive black hole)",
           schwarzschild_radius_km("4e6"),
           "Event horizon radius for a 4.0e+06 Msun supermassive black hole (similar to the Milky Way's center).") >>

\* the branch 'elif "orbit" in ... or "exoplanet" in ... or "planet" in ...'
orbital_calculations ==
    << CalculationResult(
           "Orbital period at 1 AU",
           kepler_orbital_period_days("1.0", "1.0"),
           "Approximate orbital period of an Earth-like orbit around a Sun-like star."),
       CalculationResult(
           "Orbital period at 5 AU",
           kepler_orbital_period_days("5.0", "1.0"),
           "Approximate orbital period for a Jupiter-like orbit around a Sun-like star.") >>

\* a plausible slip: the else branch appends nothing
generic_calculations_none == <<>>

\* the else branch: "Generic black hole calculation as a fallback"
generic_calculations ==
    << CalculationResult(
           "Schwarzschild radius (example)",
           schwarzschild_radius_km("10.0"),
           "Event horizon radius for a 10.0 Msun black hole. Used as a generic astrophysical scale for this topic.") >>

\* a plausible slip: the topic is matched without lowercasing it
topic_lower_no_lower(topic) == topic

\* topic_lower = payload.topic.lower()
topic_lower(topic) == lower(topic)

\* the if / elif / else over topic_lower
topic_calculations(topic) ==
    LET t == topic_lower(topic)
    IN  IF Contains(t, KW_BLACK_HOLE) THEN black_hole_calculations
        ELSE IF \/ Contains(t, KW_ORBIT)
                \/ Contains(t, KW_EXOPLANET)
                \/ Contains(t, KW_PLANET)
             THEN orbital_calculations
             ELSE generic_calculations

(***************************************************************************)
(* summarize_with_gemini and the response (analyze_topic, step 3).         *)
(***************************************************************************)
NO_PAPERS == "No papers were retrieved for this topic."
NO_CALCULATIONS == "No explicit calculations were performed."

\* '"sep".join(blocks) or literal': the joined blocks, and the literal that
\* stands in when the join is the empty string
joined_or(blocks, literal) ==
    [blocks |-> blocks, literal |-> IF Len(blocks) = 0 THEN literal ELSE ""]

\* paper_text of summarize_with_gemini: one block per paper, or the literal
summary_paper_text(ps) ==
    joined_or([i \in 1..Len(ps) |->
                  [Title |-> ps[i].title, Authors |-> ps[i].authors,
                   Abstract |-> ps[i].summary]],
              NO_PAPERS)

\* calc_text of summarize_with_gemini: one line per calculation, or the literal
summary_calc_text(cs) ==
    joined_or([i \in 1..Len(cs) |->
                  [label |-> cs[i].label, value |-> cs[i].value,
                   details |-> cs[i].details]],
              NO_CALCULATIONS)

\* a plausible slip: the prompt is built before the calculations exist
summary_prompt_before_calculations(topic, ps, cs) ==
    [topic |-> topic, paper_text |-> summary_paper_text(ps),
     calc_text |-> summary_calc_text(<<>>)]

\* the prompt f-string of summarize_with_gemini: its three interpolations
summary_prompt(topic, ps, cs) ==
    [topic |-> topic, paper_text |-> summary_paper_text(ps),
     calc_text |-> summary_calc_text(cs)]

\* texts response.text may hold in summarize_with_gemini
SummaryTexts ==
    { <<>>, <<" ","\n">>, <<"F","o","o",".">>, <<"\n","F","o","o","."," ">> }

\* 'if not text: return ""' then 'return text.strip()', for a str text
summary_of_text(text) == IF Len(text) = 0 THEN <<>> ELSE Strip(text)

\* "This report is based on "
FALLBACK_HEAD ==
    <<"T","h","i","s"," ","r","e","p","o","r","t"," ","i","s"," ","b","a","s",
      "e","d"," ","o","n"," ">>
\* " arXiv result(s) for the topic '"
FALLBACK_MID ==
    <<" ","a","r","X","i","v"," ","r","e","s","u","l","t","(","s",")"," ","f",
      "o","r"," ","t","h","e"," ","t","o","p","i","c"," ","'">>
\* "'. The summaries below are extracted directly from the arXiv abstracts."
FALLBACK_TAIL ==
    <<"'","."," ","T","h","e"," ","s","u","m","m","a","r","i","e","s"," ","b",
      "e","l","o","w"," ","a","r","e"," ","e","x","t","r","a","c","t","e","d",
      " ","d","i","r","e","c","t","l","y"," ","f","r","o","m"," ","t","h","e",
      " ","a","r","X","i","v"," ","a","b","s","t","r","a","c","t","s",".">>

\* the fallback overview f-string
fallback_overview(ps, topic) ==
    FALLBACK_HEAD \o Digits(Len(ps)) \o FALLBACK_MID \o topic \o FALLBACK_TAIL

\* a plausible slip: the summary is used without the fallback
overview_of_no_fallback(s, ps, topic) == s

\* 'if summary: overview = summary / else: overview = <fallback>'
overview_of(s, ps, topic) ==
    IF Len(s) > 0 THEN s ELSE fallback_overview(ps, topic)

\* the fixed future_work text of analyze_topic
FUTURE_WORK_TEXT ==
    <<"I","n"," ","f","u","t","u","r","e"," ","i","t","e","r","a","t","i","o",
      "n","s",","," ","t","h","i","s"," ","a","g","e","n","t"," ","w","i","l",
      "l"," ","i","n","c","l","u","d","e"," ","m","o","r","e"," ","d","e","t",
      "a","i","l","e","d"," ","r","e","a","s","o","n","i","n","g",","," ","t",
      "o","p","i","c"," ","c","l","u","s","t","e","r","i","n","g",","," ","c",
      "i","t","a","t","i","o","n"," ","g","r","a","p","h"," ","a","n","a","l",
      "y","s","i","s",","," ","a","n","d"," ","a","s","t","r","o","p","h","y",
      "s","i","c","a","l"," ","c","a","l","c","u","l","a","t","i","o","n","s",
      " ","t","a","i","l","o","r","e","d"," ","t","o"," ","t","h","e"," ","q",
      "u","e","r","y",".">>

AnalyzeTopicResponse(topic, ov, ps, cs, fw) ==
    [topic |-> topic, overview |-> ov, papers |-> ps, calculations |-> cs,
     future_work |-> fw]

\* value of `response` while the handler has not returned
NoResponse == AnalyzeTopicResponse(<<>>, <<>>, <<>>, <<>>, <<>>)

(***************************************************************************)
(* The analyze_topic handler, one action per step.                         *)
(***************************************************************************)
\* entries = search_arxiv(payload.topic, payload.max_papers)
search_arxiv ==
    /\ pc = "search"
    /\ search_calls' = Append(search_calls,
                              search_params(payload.topic, payload.max_papers))
    /\ \/ \* httpx.RequestError (network error, timeout): return []
          /\ search_outcome' = "RequestError"
          /\ entries' = <<>>
          /\ pc' = "normalize"
       \/ \* raise_for_status -> httpx.HTTPStatusError: return []
          /\ search_outcome' = "HTTPStatusError"
          /\ entries' = <<>>
          /\ pc' = "normalize"
       \/ \* 2xx with an Atom feed
          \E feed \in Feeds :
              /\ search_outcome' = "ok"
              /\ entries' = search_results(feed)
              /\ pc' = "normalize"
       \/ \* 2xx with a body that is not XML: ET.fromstring raises
          \* xml.etree.ElementTree.ParseError, outside the try, and nothing
          \* in analyze_topic catches it
          /\ search_outcome' = "ParseError"
          /\ entries' = <<>>
          /\ pc' = "raised"
    /\ UNCHANGED <<payload, env_key, papers, calculations, gemini_outcome,
                   summary, response, gemini_calls>>
    /\ UNCHANGED report_vars

\* the for loop building papers
normalize_entries ==
    /\ pc = "normalize"
    /\ \E nows \in [1..Len(entries) -> Clock] :
           papers' = normalize(entries, nows)
    /\ pc' = "calculate"
    /\ UNCHANGED <<payload, env_key, search_outcome, entries, calculations,
                   gemini_outcome, summary, response, search_calls,
                   gemini_calls>>
    /\ UNCHANGED report_vars

\* the topic-based calculations
calculate ==
    /\ pc = "calculate"
    /\ calculations' = topic_calculations(payload.topic)
    /\ pc' = "summarize"
    /\ UNCHANGED <<payload, env_key, search_outcome, entries, papers,
                   gemini_outcome, summary, response, search_calls,
                   gemini_calls>>
    /\ UNCHANGED report_vars

\* summary = summarize_with_gemini(payload.topic, papers, calculations)
summarize_with_gemini ==
    /\ pc = "summarize"
    /\ \/ \* if not api_key: return ""
          /\ ~env_key
          /\ gemini_outcome' = [kind |-> "no_key", text |-> <<>>]
          /\ summary' = <<>>
          /\ UNCHANGED gemini_calls
       \/ \* model.generate_content raises: except Exception -> return ""
          /\ env_key
          /\ gemini_calls' = Append(gemini_calls,
                 summary_prompt(payload.topic, papers, calculations))
          /\ gemini_outcome' = [kind |-> "raises", text |-> <<>>]
          /\ summary' = <<>>
       \/ \* response.text is None (or missing): if not text -> return ""
          /\ env_key
          /\ gemini_calls' = Append(gemini_calls,
                 summary_prompt(payload.topic, papers, calculations))
          /\ gemini_outcome' = [kind |-> "no_text", text |-> <<>>]
          /\ summary' = <<>>
       \/ \* response.text is a str: "" -> "", else text.strip()
          /\ env_key
          /\ gemini_calls' = Append(gemini_calls,
                 summary_prompt(payload.topic, papers, calculations))
          /\ \E text \in SummaryTexts :
                 /\ gemini_outcome' = [kind |-> "text", text |-> text]
                 /\ summary' = summary_of_text(text)
    /\ pc' = "respond"
    /\ UNCHANGED <<payload, env_key, search_outcome, entries, papers,
                   calculations, response, search_calls>>
    /\ UNCHANGED report_vars

\* overview / future_work and the returned AnalyzeTopicResponse
respond ==
    /\ pc = "respond"
    /\ response' = AnalyzeTopicResponse(
                       payload.topic,
                       overview_of(summary, papers, payload.topic),
                       papers, calculations, FUTURE_WORK_TEXT)
    /\ pc' = "done"
    /\ UNCHANGED <<payload, env_key, search_outcome, entries, papers,
                   calculations, gemini_outcome, summary, search_calls,
                   gemini_calls>>
    /\ UNCHANGED report_vars

\* generate_report is not running
ReportIdle ==
    /\ gr_pc = "idle"
    /\ api_key = FALSE
    /\ gr_in = [topic |-> <<>>, papers |-> <<>>, calculations |-> <<>>]
    /\ gr_provider = [kind |-> "none", text |-> <<>>]
    /\ gr_out = [overview |-> <<>>, future_work |-> <<>>]

\* a request arrives at POST /api/analyze-topic
Init ==
    /\ pc = "search"
    /\ payload \in AnalyzeTopicRequest
    /\ env_key \in BOOLEAN
    /\ search_outcome = "none"
    /\ entries = <<>>
    /\ papers = <<>>
    /\ calculations = <<>>
    /\ gemini_outcome = [kind |-> "none", text |-> <<>>]
    /\ summary = <<>>
    /\ response = NoResponse
    /\ search_calls = <<>>
    /\ gemini_calls = <<>>
    /\ ReportIdle

Next ==
    \/ search_arxiv
    \/ normalize_entries
    \/ calculate
    \/ summarize_with_gemini
    \/ respond

Spec == Init /\ [][Next]_vars

(***************************************************************************)
(* gemini_client.generate_report(topic, papers, calculations).             *)
(***************************************************************************)
\* "FUTURE_WORK:"
MARK_FUTURE_WORK == <<"F","U","T","U","R","E","_","W","O","R","K",":">>
\* "OVERVIEW:"
MARK_OVERVIEW == <<"O","V","E","R","V","I","E","W",":">>

\* pieces a provider text is made of
TextPieces ==
    { MARK_OVERVIEW, MARK_FUTURE_WORK, <<" ">>, <<"\n">>,
      <<"F","o","o",".">>, <<"B","a","r",".">>,
      <<"O","V","E","R">>, <<"V","I","E","W",":">> }

RECURSIVE Concat(_)
Concat(ss) == IF Len(ss) = 0 THEN <<>> ELSE Head(ss) \o Concat(Tail(ss))

\* texts response.text may hold in generate_report
ReportTexts == {Concat(ss) : ss \in SeqsUpTo(TextPieces, MaxPieces)}

\* d.get(k, default)
Get(d, k, default) == IF k \in DOMAIN d THEN d[k] ELSE default

\* paper dicts and calculation dicts a caller passes (keys may be missing)
PaperDicts ==
    { [title |-> <<"A">>, authors |-> <<>>, published |-> <<DT, "Z">>,
       summary |-> <<>>, url |-> <<"u","1">>],
      [title |-> <<"B">>] }
CalculationDicts ==
    { [label |-> "Orbital period at 1 AU", value |-> "365.2 days",
       details |-> "Approximate orbital period of an Earth-like orbit around a Sun-like star."],
      [label |-> "Schwarzschild radius (example)"] }

ReportInputs ==
    [ topic : {T_EMPTY, T_BLACK_HOLE},
      papers : SeqsUpTo(PaperDicts, 1),
      calculations : SeqsUpTo(CalculationDicts, 1) ]

\* paper_text of generate_report ('if papers: ... else: <literal>')
report_paper_text(ps) ==
    [blocks  |-> [i \in 1..Len(ps) |->
                    [Title     |-> Get(ps[i], "title", <<>>),
                     Authors   |-> Get(ps[i], "authors", <<>>),
                     Published |-> Get(ps[i], "published", <<>>),
                     Abstract  |-> Get(ps[i], "summary", <<>>),
                     URL       |-> Get(ps[i], "url", <<>>)]],
     literal |-> IF Len(ps) = 0 THEN NO_PAPERS ELSE ""]

\* calc_text of generate_report ('if calculations: ... else: <literal>')
report_calc_text(cs) ==
    [blocks  |-> [i \in 1..Len(cs) |->
                    [label   |-> Get(cs[i], "label", ""),
                     value   |-> Get(cs[i], "value", ""),
                     details |-> Get(cs[i], "details", "")]],
     literal |-> IF Len(cs) = 0 THEN NO_CALCULATIONS ELSE ""]

\* the prompt f-string of generate_report: its three interpolations
report_prompt(in) ==
    [topic |-> in.topic, paper_text |-> report_paper_text(in.papers),
     calc_text |-> report_calc_text(in.calculations)]

\* {"overview": "", "future_work": ""}
EmptyReport == [overview |-> <<>>, future_work |-> <<>>]

\* overview / future_work parsed from the provider's text
report_of_text(text) ==
    IF Contains(text, MARK_FUTURE_WORK)
    THEN LET i      == Find(text, MARK_FUTURE_WORK)
             before == SubSeq(text, 1, i - 1)
             after  == SubSeq(text, i + Len(MARK_FUTURE_WORK), Len(text))
         IN  [overview    |-> Strip(Replace(before, MARK_OVERVIEW, <<>>)),
              future_work |-> Strip(after)]
    ELSE [overview |-> Strip(text), future_work |-> <<>>]

\* a plausible slip: the provider call is not guarded, the exception escapes
report_on_exception_reraise == [pc |-> "raised", out |-> EmptyReport]

\* 'except Exception as e: ... return {"overview": "", "future_work": ""}'
report_on_exception == [pc |-> "returned", out |-> EmptyReport]

generate_report ==
    /\ gr_pc = "call"
    /\ \/ \* if not api_key: return empty strings
          /\ ~api_key
          /\ gr_provider' = [kind |-> "no_key", text |-> <<>>]
          /\ gr_out' = EmptyReport
          /\ gr_pc' = "returned"
          /\ UNCHANGED gemini_calls
       \/ \* model.generate_content (or response.text) raises
          /\ api_key
          /\ gemini_calls' = Append(gemini_calls, report_prompt(gr_in))
          /\ gr_provider' = [kind |-> "raises", text |-> <<>>]
          /\ gr_out' = report_on_exception.out
          /\ gr_pc' = report_on_exception.pc
       \/ \* response.text is None or missing: text = ""
          /\ api_key
          /\ gemini_calls' = Append(gemini_calls, report_prompt(gr_in))
          /\ gr_provider' = [kind |-> "no_text", text |-> <<>>]
          /\ gr_out' = report_of_text(<<>>)
          /\ gr_pc' = "returned"
       \/ \* response.text is a str
          /\ api_key
          /\ gemini_calls' = Append(gemini_calls, report_prompt(gr_in))
          /\ \E text \in ReportTexts :
                 /\ gr_provider' = [kind |-> "text", text |-> text]
                 /\ gr_out' = report_of_text(text)
          /\ gr_pc' = "returned"
    /\ UNCHANGED <<api_key, gr_in>>
    /\ UNCHANGED handler_vars

\* analyze_topic is not running
HandlerIdle ==
    /\ pc = "idle"
    /\ payload = [topic |-> <<>>, max_papers |-> DefaultMaxPapers]
    /\ env_key = FALSE
    /\ search_outcome = "none"
    /\ entries = <<>>
    /\ papers = <<>>
    /\ calculations = <<>>
    /\ gemini_outcome = [kind |-> "none", text |-> <<>>]
    /\ summary = <<>>
    /\ response = NoResponse
    /\ search_calls = <<>>

\* a caller invokes generate_report
InitReport ==
    /\ HandlerIdle
    /\ gemini_calls = <<>>
    /\ gr_pc = "call"
    /\ api_key \in BOOLEAN
    /\ gr_in \in ReportInputs
    /\ gr_provider = [kind |-> "none", text |-> <<>>]
    /\ gr_out = EmptyReport

NextReport == generate_report

SpecReport == InitReport /\ [][NextReport]_vars

(***************************************************************************)
(* Vocabulary of the properties.  These operators state what the           *)
(* specification says, independently of the operators that model the code. *)
(***************************************************************************)
\* c and d are the same letter up to case, or the same character
SameLetter(c, d) ==
    \/ c = d
    \/ \E i \in 1..Len(UPPER) : {c, d} = {UPPER[i], LOWER[i]}

\* the topic contains the keyword in any letter case
Mentions(topic, kw) ==
    \E i \in 1..(Len(topic) + 1) :
        /\ i + Len(kw) - 1 <= Len(topic)
        /\ \A k \in 1..Len(kw) : SameLetter(topic[i + k - 1], kw[k])

MentionsAny(topic, kws) == \E kw \in kws : Mentions(topic, kw)

\* the labels of a calculations sequence, in order
Labels(cs) == [i \in 1..Len(cs) |-> cs[i].label]

\* the text holds nothing but whitespace (the empty text included)
AllWhitespace(text) == \A i \in 1..Len(text) : text[i] \in Whitespace

\* the handler has returned its AnalyzeTopicResponse
Returned == pc = "done"

(***************************************************************************)
(* C1: analyze never fails a request: for every outcome of the search      *)
(* provider and of the generative provider no exception propagates out of  *)
(* the handler, and a failed search degrades to an empty papers sequence.  *)
(* The code breaks this when the search provider answers 2xx with a body   *)
(* that is not well-formed XML.                                            *)
(***************************************************************************)
C1_NeverFailsRequest ==
    /\ pc # "raised"
    /\ (Returned /\ search_outcome # "ok") => response.papers = <<>>

(***************************************************************************)
(* C2: profile selection is first-match-wins on the lowercased topic: a    *)
(* topic containing "black hole" in any letter case (also next to "orbit", *)
(* "exoplanet" or "planet") gets exactly the two Schwarzschild-radius      *)
(* calculations, stellar-mass then supermassive; a topic containing        *)
(* "orbit", "exoplanet" or "planet" and not "black hole" gets exactly the  *)
(* two orbital-period calculations, 1 AU then 5 AU.                        *)
(***************************************************************************)
C2_ProfileFirstMatchWins ==
    Returned =>
        /\ Mentions(payload.topic, KW_BLACK_HOLE) =>
               Labels(response.calculations) =
                   << "Schwarzschild radius (stellar-mass black hole)",
                      "Schwarzschild radius (supermassive black hole)" >>
        /\ ( /\ ~Mentions(payload.topic, KW_BLACK_HOLE)
             /\ MentionsAny(payload.topic, {KW_ORBIT, KW_EXOPLANET, KW_PLANET}) )
           => Labels(response.calculations) =
                  << "Orbital period at 1 AU", "Orbital period at 5 AU" >>

\* a returned report for "BLACK HOLE orbit": both keyword sets match, in
\* upper case, and the black-hole calculations are the ones emitted
C2_Witness ==
    /\ Returned
    /\ payload.topic = T_BLACK_HOLE_ORBIT
    /\ Len(response.calculations) = 2
    /\ response.calculations[1].label =
           "Schwarzschild radius (stellar-mass black hole)"

(***************************************************************************)
(* C3, as stated: a topic (the empty one included) whose lowercased form   *)
(* contains none of "black hole", "orbit", "exoplanet", "planet" gets an   *)
(* empty calculations sequence.                                            *)
(***************************************************************************)
NoProfileKeyword(topic) ==
    ~MentionsAny(topic, {KW_BLACK_HOLE, KW_ORBIT, KW_EXOPLANET, KW_PLANET})

C3_NoKeywordNoCalculations ==
    (Returned /\ NoProfileKeyword(payload.topic)) =>
        response.calculations = <<>>

(***************************************************************************)
(* C3, amended: such a topic gets exactly one calculation, the generic     *)
(* fallback labelled "Schwarzschild radius (example)".                     *)
(***************************************************************************)
C3_NoKeywordGenericCalculation ==
    (Returned /\ NoProfileKeyword(payload.topic)) =>
        Labels(response.calculations) = << "Schwarzschild radius (example)" >>

\* a returned report for the empty topic
C3_Witness ==
    /\ Returned
    /\ payload.topic = T_EMPTY
    /\ Len(response.calculations) = 1

(***************************************************************************)
(* C4, as stated: the result count passed to the search provider is the    *)
(* classifier budget of the topic: 8, else 6, else 5, else 3 by keyword    *)
(* tier on the lowercased topic, first match wins.                         *)
(***************************************************************************)
KW_UNIVERSE == <<"u","n","i","v","e","r","s","e">>
KW_COSMOLOGY == <<"c","o","s","m","o","l","o","g","y">>
KW_ASTROPHYSICS == <<"a","s","t","r","o","p","h","y","s","i","c","s">>
KW_DARK_MATTER == <<"d","a","r","k"," ","m","a","t","t","e","r">>
KW_DARK_ENERGY == <<"d","a","r","k"," ","e","n","e","r","g","y">>
KW_INFLATION == <<"i","n","f","l","a","t","i","o","n">>
KW_STRUCTURE_FORMATION ==
    <<"s","t","r","u","c","t","u","r","e"," ","f","o","r","m","a","t","i","o",
      "n">>
KW_GALAXY == <<"g","a","l","a","x","y">>
KW_ACCRETION == <<"a","c","c","r","e","t","i","o","n">>
KW_SUPERNOVA == <<"s","u","p","e","r","n","o","v","a">>

ClassifierBudget(topic) ==
    IF MentionsAny(topic, {KW_UNIVERSE, KW_COSMOLOGY, KW_ASTROPHYSICS}) THEN 8
    ELSE IF MentionsAny(topic, {KW_DARK_MATTER, KW_DARK_ENERGY, KW_INFLATION,
                                KW_STRUCTURE_FORMATION}) THEN 6
    ELSE IF MentionsAny(topic, {KW_GALAXY, KW_EXOPLANET, KW_PLANET,
                                KW_ACCRETION, KW_SUPERNOVA}) THEN 5
    ELSE 3

C4_CountIsClassifierBudget ==
    \A i \in 1..Len(search_calls) :
        search_calls[i].max_results = ClassifierBudget(payload.topic)

(***************************************************************************)
(* C4, amended: the result count passed to the search provider is the      *)
(* max_papers field of the request, whatever the topic (and so whatever    *)
(* the calculation profile); the query is the topic.                       *)
(***************************************************************************)
C4_CountIsMaxPapers ==
    \A i \in 1..Len(search_calls) :
        /\ search_calls[i].max_results = payload.max_papers
        /\ search_calls[i].search_query = <<"a","l","l",":">> \o payload.topic

\* the search was issued for "planets in the universe" (tier 8 by keyword)
\* with max_papers = 1, and asked for 1 result
C4_Witness ==
    /\ Len(search_calls) = 1
    /\ payload.topic = T_PLANET_UNIVERSE
    /\ payload.max_papers = 1
    /\ search_calls[1].max_results = 1

(***************************************************************************)
(* C5: in every returned report overview and future_work are non-empty,    *)
(* for every topic, search result and generative-provider outcome; when    *)
(* the provider yields nothing (no credential, an exception, no text, an   *)
(* empty or whitespace-only text) the overview is the templated fallback   *)
(* text, whose N is the number of papers of the report.                    *)
(***************************************************************************)
ProviderYieldsNothing ==
    \/ gemini_outcome.kind \in {"no_key", "raises", "no_text"}
    \/ gemini_outcome.kind = "text" /\ AllWhitespace(gemini_outcome.text)

C5_NarrativeNeverEmpty ==
    Returned =>
        /\ Len(response.overview) > 0
        /\ Len(response.future_work) > 0
        /\ ProviderYieldsNothing =>
               response.overview =
                   FALLBACK_HEAD \o Digits(Len(response.papers))
                       \o FALLBACK_MID \o payload.topic \o FALLBACK_TAIL

\* a returned report over two papers whose provider text was whitespace only
C5_Witness ==
    /\ Returned
    /\ gemini_outcome = [kind |-> "text", text |-> <<" ","\n">>]
    /\ Len(response.papers) = 2
    /\ Len(response.overview) > 0

(***************************************************************************)
(* C6: normalization is a 1:1 order-preserving mapping: the papers         *)
(* sequence is as long as the sequence of raw records and its i-th paper   *)
(* is built from the i-th record; a record whose published string is       *)
(* empty or unparsable is kept, and the rest of the batch with it.         *)
(***************************************************************************)
Normalized == pc \in {"calculate", "summarize", "respond", "done"}

C6_NormalizationOneToOne ==
    /\ Normalized =>
           /\ Len(papers) = Len(entries)
           /\ \A i \in 1..Len(entries) :
                  /\ papers[i].title = entries[i].title
                  /\ papers[i].url = entries[i].url
                  /\ papers[i].summary = entries[i].summary
                  /\ papers[i].authors = entries[i].authors
    /\ Returned => response.papers = papers

\* a returned report over two records, the first of which has an unparsable
\* published string and the second a Zulu-suffixed one
C6_Witness ==
    /\ Returned
    /\ Len(entries) = 2
    /\ entries[1].published = <<"junk">>
    /\ entries[2].published = <<DT, "Z">>
    /\ Len(response.papers) = 2
    /\ response.papers[2].published.at = DT

(***************************************************************************)
(* C7: every paper produced by normalization has a timezone-aware          *)
(* published value, for a Zulu-suffixed string, a string with an explicit  *)
(* offset, a string with no offset, and a missing or unparsable string.    *)
(* The code breaks this for a string with no offset (fromisoformat yields  *)
(* a naive datetime) and for the substituted time (utcnow() is naive).     *)
(***************************************************************************)
C7_PublishedTimezoneAware ==
    \A i \in 1..Len(papers) : papers[i].published.tzinfo # NoTz

(***************************************************************************)
(* C8: generate_report never raises, and returns overview = "" and         *)
(* future_work = "" when the provider is unconfigured, throws, or returns  *)
(* no text, an empty text or a whitespace-only text.                       *)
(***************************************************************************)
ReportProviderYieldsNothing ==
    \/ gr_provider.kind \in {"no_key", "raises", "no_text"}
    \/ gr_provider.kind = "text" /\ AllWhitespace(gr_provider.text)

C8_ReportNeverRaises ==
    /\ gr_pc \in {"call", "returned"}
    /\ (gr_pc = "returned" /\ ReportProviderYieldsNothing) =>
           gr_out = [overview |-> <<>>, future_work |-> <<>>]

\* generate_report was called with a credential and the provider threw
C8_Witness ==
    /\ gr_pc = "returned"
    /\ api_key
    /\ gr_provider.kind = "raises"
    /\ Len(gemini_calls) = 1

(***************************************************************************)
(* C9: response parsing of generate_report: with the marker FUTURE_WORK:   *)
(* in the text, the overview is the text before the first marker with only *)
(* a leading OVERVIEW: prefix removed (other occurrences of OVERVIEW: are  *)
(* kept), trimmed, and future_work is what follows the first marker,       *)
(* trimmed; without the marker the overview is the whole response and      *)
(* future_work is empty.  Both readings of "leading" (before or after the  *)
(* leading whitespace) and of "the whole response" (trimmed or not) are    *)
(* accepted.  The code breaks this: it removes every OVERVIEW:.            *)
(***************************************************************************)
\* s with the prefix removed when s starts with it
RemovePrefix(s, prefix) ==
    IF MatchAt(s, prefix, 1) THEN SubSeq(s, Len(prefix) + 1, Len(s)) ELSE s

C9_OnlyLeadingOverviewRemoved ==
    (gr_pc = "returned" /\ gr_provider.kind = "text") =>
        LET text == gr_provider.text
        IN  IF Contains(text, MARK_FUTURE_WORK)
            THEN LET i      == Find(text, MARK_FUTURE_WORK)
                     before == SubSeq(text, 1, i - 1)
                     after  == SubSeq(text, i + Len(MARK_FUTURE_WORK), Len(text))
                 IN  /\ gr_out.overview \in
                            { Strip(RemovePrefix(before, MARK_OVERVIEW)),
                              Strip(RemovePrefix(LStrip(before), MARK_OVERVIEW)) }
                     /\ gr_out.future_work = Strip(after)
            ELSE /\ gr_out.overview \in {text, Strip(text)}
                 /\ gr_out.future_work = <<>>

(***************************************************************************)
(* C10: in every execution of analyze the search provider is called        *)
(* exactly once and the generative provider at most once (no retry), the   *)
(* generative call comes after the normalization of all fetched records    *)
(* and after the calculations, and it receives exactly the papers and the  *)
(* calculations of the returned report.                                    *)
(***************************************************************************)
\* what the prompt of summarize_with_gemini shows of papers and calculations
Shown(topic, ps, cs) ==
    [ topic |-> topic,
      paper_text |->
          [blocks |-> [i \in 1..Len(ps) |->
                          [Title |-> ps[i].title, Authors |-> ps[i].authors,
                           Abstract |-> ps[i].summary]],
           literal |-> IF ps = <<>> THEN NO_PAPERS ELSE ""],
      calc_text |->
          [blocks |-> [i \in 1..Len(cs) |->
                          [label |-> cs[i].label, value |-> cs[i].value,
                           details |-> cs[i].details]],
           literal |-> IF cs = <<>> THEN NO_CALCULATIONS ELSE ""] ]

C10_CallsOnceAndInOrder ==
    /\ Len(search_calls) = (IF pc = "search" THEN 0 ELSE 1)
    /\ Len(gemini_calls) <= 1
    /\ pc \in {"search", "normalize", "calculate", "summarize", "raised"} =>
           gemini_calls = <<>>
    /\ (Returned /\ gemini_calls # <<>>) =>
           gemini_calls[1] =
               Shown(response.topic, response.papers, response.calculations)

\* a returned report over two papers and two calculations, written from the
\* provider's text after one generative call
C10_Witness ==
    /\ Returned
    /\ Len(search_calls) = 1
    /\ Len(gemini_calls) = 1
    /\ gemini_outcome.kind = "text"
    /\ Len(response.papers) = 2
    /\ Len(response.calculations) = 2
    /\ response.overview = <<"F","o","o",".">>

====
